---- MODULE Spec2Model ----
(***************************************************************************)
(* Model of the EAT synchronisation pipeline:                              *)
(*   delta_calc.py       compute_delta                                     *)
(*   eat_downloader.py   download_missing_and_changed and its helpers      *)
(*   eat_remote_index.py HttpClient.get_json / HttpClient.head,            *)
(*                       build_remote_index_v2                             *)
(*                                                                         *)
(* Six specifications share the variables; each holds the parts it does    *)
(* not use at their idle values:                                           *)
(*   Spec        one run of download_missing_and_changed against a delta   *)
(*               and a checkpoint left by an earlier run; downloads and    *)
(*               archive moves fail, checkpoint writes raise, the process  *)
(*               is killed                                                 *)
(*   SpecResume  runs of download_missing_and_changed killed and started   *)
(*               again on the files the killed run left                    *)
(*   SpecDelta   compute_delta applied to bounded catalogs                 *)
(*   SpecWrite   _write_json_atomic step by step, with kills               *)
(*   SpecHttp    one call of HttpClient.get_json or HttpClient.head        *)
(*   SpecIndex   one call of build_remote_index_v2: sequential pagination, *)
(*               the per-page worker pool, its tasks' interleavings        *)
(*                                                                         *)
(* Encoding of Python values.  File names are integers ordered as the      *)
(* strings are: 0 is the empty string, 1..NumNames are "f1.pdf",           *)
(* "f2.pdf", ...  None is NoneV.  Slugs and URLs are positive integers.    *)
(* A size value is a record [t, v]: t = "none" (None), "int" (the int v),  *)
(* "str" (the decimal string of v) or "bad" (a string int() rejects).      *)
(***************************************************************************)
EXTENDS Integers, Sequences, FiniteSets, TLC

VARIABLES
    \* ---- compute_delta
    remote_index,     \* slug -> remote record
    local_index,      \* filename -> local record
    delta,            \* the delta compute_delta returned
    dpc,              \* "input" | "computed"
    \* ---- download_missing_and_changed: arguments
    archive_changed,  \* bool
    max_items,        \* NoneV or a number
    \* ---- download_missing_and_changed: locals
    pc,               \* position in the function
    wctx,             \* which _write_json_atomic call is running
    results,          \* the in-memory checkpoint
    already_done,     \* set of file names
    plan,             \* the (truncated) plan
    idx,              \* position of the for loop in plan (1-based)
    attempt,          \* _download_file's attempt counter
    exc,              \* the exception in flight / last raised ("" if none)
    \* ---- file system
    destFiles,        \* filename -> content of eat_dir/filename
    archiveFiles,     \* archived path -> content
    ckptFiles,        \* checkpoint path and its .tmp sibling -> file
    \* ---- environment
    clock,            \* wall clock, in half seconds
    run,              \* number of the current run of the downloader
    \* ---- history (not read by the program)
    loaded,           \* the checkpoint as loaded at the start of this run
    fetched,          \* file names a download request was issued for, this run
    archivedNow,      \* file names archived in this run
    completed,        \* file names whose download was renamed into place, this run
    raised,           \* plan positions whose archive or download step raised, this run
    attempted,        \* plan positions whose archive/fetch processing began, this run
    archOps,          \* every archive operation so far, all runs: [path, time, lost]
    \* ---- HttpClient
    http,             \* one call of get_json / head
    \* ---- _write_json_atomic, step by step
    wr,               \* one call of _write_json_atomic
    \* ---- build_remote_index_v2
    ix                \* one call of build_remote_index_v2

vars == <<remote_index, local_index, delta, dpc, archive_changed, max_items,
          pc, wctx, results, already_done, plan, idx, attempt, exc,
          destFiles, archiveFiles, ckptFiles, clock, run,
          loaded, fetched, archivedNow, completed, raised, attempted, archOps,
          http, wr, ix>>

deltaVars == <<remote_index, local_index, delta, dpc>>
argVars   == <<archive_changed, max_items>>
httpVars  == <<http, wr, ix>>

(***************************************************************************)
(* Bounds                                                                  *)
(***************************************************************************)
NumNames == 2
NumSlugs == 2
MaxSize == 2
MaxRuns == 2
MaxClock == 2
DlMaxRetries == 1
HttpMaxRetries == 2

NoneV == -1

Names == 1..NumNames
Slugs == 1..NumSlugs

\* Python truthiness of a file name, slug or url: None and "" are falsy
Truthy(x) == x # NoneV /\ x # 0

(***************************************************************************)
(* Sequences helpers                                                       *)
(***************************************************************************)
Range(s) == {s[i] : i \in DOMAIN s}

SetMin(S) == CHOOSE x \in S : \A y \in S : x <= y
SetMax(S) == CHOOSE x \in S : \A y \in S : x >= y

\* Python sorted() of a set of file names
RECURSIVE sorted(_)
sorted(S) == IF S = {} THEN <<>>
             ELSE LET m == SetMin(S) IN <<m>> \o sorted(S \ {m})

\* s[:n] for n >= 0
Take(s, n) == SubSeq(s, 1, IF n < Len(s) THEN n ELSE Len(s))

(***************************************************************************)
(* delta_calc.py                                                           *)
(***************************************************************************)
SizeNone == [t |-> "none", v |-> 0]
SizeInt(n) == [t |-> "int", v |-> n]
SizeStr(n) == [t |-> "str", v |-> n]
SizeBad == [t |-> "bad", v |-> 0]

\* int(x) succeeds on ints and decimal strings
IntOk(x) == x.t \in {"int", "str"}
\* int(x) where it succeeds
PyInt(x) == x.v

\* faulty variant: records without a file name are kept
remote_by_filename_unfiltered(ri) ==
    LET fns == {ri[s].pdf_filename : s \in DOMAIN ri}
    IN  [fn \in fns |->
            LET s == SetMax({x \in DOMAIN ri : ri[x].pdf_filename = fn})
            IN  [slug |-> s,
                 pdf_filename |-> ri[s].pdf_filename,
                 pdf_url |-> ri[s].pdf_url,
                 pdf_content_length |-> ri[s].pdf_content_length]]

\* remote_by_filename: filename -> {"slug": slug, **r}; records are visited in
\* the catalog's order (ascending slug), a later record replaces an earlier one
remote_by_filename(ri) ==
    LET fns == {ri[s].pdf_filename : s \in DOMAIN ri}
    IN  [fn \in {f \in fns : Truthy(f)} |->
            LET s == SetMax({x \in DOMAIN ri : ri[x].pdf_filename = fn})
            IN  [slug |-> s,
                 pdf_filename |-> ri[s].pdf_filename,
                 pdf_url |-> ri[s].pdf_url,
                 pdf_content_length |-> ri[s].pdf_content_length]]

remote_files(ri) == DOMAIN remote_by_filename(ri)
local_files(li) == DOMAIN li

missing_files(ri, li) == sorted(remote_files(ri) \ local_files(li))
orphaned_files(ri, li) == sorted(local_files(li) \ remote_files(ri))

\* faulty variant: the sizes are compared as they are, without int()
IsChanged_Raw(r, l) ==
    /\ r.pdf_content_length.t # "none"
    /\ l.size.t # "none"
    /\ r.pdf_content_length # l.size

\* the test of lines 94-96: both sizes present, int() accepts both, the ints differ
IsChanged(r, l) ==
    /\ r.pdf_content_length.t # "none"
    /\ l.size.t # "none"
    /\ IntOk(r.pdf_content_length)
    /\ IntOk(l.size)
    /\ PyInt(r.pdf_content_length) # PyInt(l.size)

ChangedEntry(fn, r, l) ==
    [filename |-> fn, slug |-> r.slug,
     remote_size |-> PyInt(r.pdf_content_length),
     local_size |-> PyInt(l.size),
     pdf_url |-> r.pdf_url]

changed_list(ri, li) ==
    LET rbf == remote_by_filename(ri)
        both == sorted(remote_files(ri) \cap local_files(li))
        hit(fn) == IsChanged(rbf[fn], li[fn])
        entry(fn) == ChangedEntry(fn, rbf[fn], li[fn])
        hits == SelectSeq(both, hit)
    IN  [i \in DOMAIN hits |-> entry(hits[i])]

MissingEntry(fn, r) == [filename |-> fn, slug |-> r.slug, pdf_url |-> r.pdf_url]

OrphanedEntry(fn, l) == [filename |-> fn, path |-> l.path]

\* faulty variant: missing counted from the remote catalog
delta_counts_remote(ri, li) ==
    [remote |-> Cardinality(remote_files(ri)),
     local |-> Cardinality(local_files(li)),
     missing |-> Cardinality(remote_files(ri)),
     changed |-> Len(changed_list(ri, li)),
     orphaned |-> Len(orphaned_files(ri, li))]

delta_counts(ri, li) ==
    [remote |-> Cardinality(remote_files(ri)),
     local |-> Cardinality(local_files(li)),
     missing |-> Len(missing_files(ri, li)),
     changed |-> Len(changed_list(ri, li)),
     orphaned |-> Len(orphaned_files(ri, li))]

compute_delta(ri, li) ==
    LET rbf == remote_by_filename(ri)
        mf == missing_files(ri, li)
        of == orphaned_files(ri, li)
    IN  [counts |-> delta_counts(ri, li),
         missing |-> [i \in DOMAIN mf |-> MissingEntry(mf[i], rbf[mf[i]])],
         changed |-> changed_list(ri, li),
         orphaned |-> [i \in DOMAIN of |-> OrphanedEntry(of[i], li[of[i]])]]

\* line 96: int() raises on a value it cannot convert
IntRaises(r, l) ==
    /\ r.pdf_content_length.t # "none"
    /\ l.size.t # "none"
    /\ ~(IntOk(r.pdf_content_length) /\ IntOk(l.size))

\* lines 95, 106-107: try ... except Exception: pass
ExceptionCaught == TRUE

\* whether an exception leaves compute_delta
compute_delta_raises(ri, li) ==
    LET rbf == remote_by_filename(ri)
    IN  \E fn \in remote_files(ri) \cap local_files(li) :
            IntRaises(rbf[fn], li[fn]) /\ ~ExceptionCaught

NoDelta == [counts |-> [remote |-> 0, local |-> 0, missing |-> 0, changed |-> 0, orphaned |-> 0],
            missing |-> <<>>, changed |-> <<>>, orphaned |-> <<>>]

(***************************************************************************)
(* SpecDelta: compute_delta on bounded catalogs                            *)
(***************************************************************************)
\* sizes of the two catalogs: absent, ints, a decimal string on the remote side,
\* a string int() rejects on the local side
SizeVals == {SizeNone, SizeStr(1)} \cup {SizeInt(n) : n \in 1..MaxSize}
LocalSizeVals == {SizeNone, SizeBad, SizeInt(1)}

\* a remote record; one without a PDF has neither url nor filename
RemoteRecs ==
    {[pdf_filename |-> NoneV, pdf_url |-> NoneV, pdf_content_length |-> SizeNone],
     [pdf_filename |-> 0, pdf_url |-> 0, pdf_content_length |-> SizeNone]}
    \cup {[pdf_filename |-> fn, pdf_url |-> fn, pdf_content_length |-> sz] :
            fn \in Names, sz \in SizeVals}

DestPath(fn) == [dir |-> "eat_dir", name |-> fn]

LocalRecs(fn) == {[size |-> sz, path |-> DestPath(fn)] : sz \in LocalSizeVals}

RemoteCatalogs == UNION {[S -> RemoteRecs] : S \in SUBSET Slugs}
LocalCatalogs ==
    UNION {{li \in [S -> UNION {LocalRecs(fn) : fn \in Names}] :
               \A fn \in S : li[fn] \in LocalRecs(fn)} : S \in SUBSET Names}


(***************************************************************************)
(* eat_downloader.py                                                       *)
(***************************************************************************)
EmptyResults == [downloaded |-> <<>>, archived |-> <<>>, failed |-> <<>>]

\* a file holding JSON text: complete, or cut short by an interrupted write
Absent == [exists |-> FALSE, complete |-> FALSE, obj |-> EmptyResults]
FullFile(obj) == [exists |-> TRUE, complete |-> TRUE, obj |-> obj]
PartialFile(obj) == [exists |-> TRUE, complete |-> FALSE, obj |-> obj]

\* out_dir / checkpoint_name, as (stem, suffix...)
checkpoint_path == <<"download_checkpoint", ".json">>

\* faulty variant: the text is written to the path itself
TmpPath_InPlace(path) == path

\* path.with_suffix(path.suffix + ".tmp")
TmpPath(path) == path \o <<".tmp">>

CkptPaths == {checkpoint_path, TmpPath(checkpoint_path)}

\* Path(p).name
PathName(p) == p.name

\* _safe_ts: strftime("%Y%m%dT%H%M%SZ") keeps whole seconds (t is in half seconds)
safe_ts(t) == t \div 2

\* archive_dir / f"{stem}__{slug}__archived_{ts}{suffix}"
ArchivedPath(fn, slug, ts) == [dir |-> "archive", name |-> fn, slug |-> slug, ts |-> ts]

\* faulty variant: the lists of the checkpoint file are dropped
LoadResults_Fresh(f) == EmptyResults

\* _load_json: {} for a missing file; json.loads raises on truncated text
LoadOk(f) == ~f.exists \/ f.complete
LoadResults(f) == IF f.exists THEN f.obj ELSE EmptyResults

\* faulty variant: compares whole paths with the destination's
AlreadyDone_FullPath(res) ==
    {PathName(p) : p \in {q \in Range(res.downloaded) : q = DestPath(PathName(q))}}

\* already_done = {Path(p).name for p in results["downloaded"]}
AlreadyDone(res) == {PathName(p) : p \in Range(res.downloaded)}

PlanItem(kind, item) ==
    [kind |-> kind, slug |-> item.slug, filename |-> item.filename, url |-> item.pdf_url]

\* faulty variant: the changed entries come first
build_download_plan_ChangedFirst(d) ==
    LET ok(item) == Truthy(item.filename) /\ Truthy(item.pdf_url) /\ Truthy(item.slug)
        m == SelectSeq(d.missing, ok)
        c == SelectSeq(d.changed, ok)
    IN  [i \in DOMAIN c |-> PlanItem("changed", c[i])]
        \o [i \in DOMAIN m |-> PlanItem("missing", m[i])]

build_download_plan(d) ==
    LET ok(item) == Truthy(item.filename) /\ Truthy(item.pdf_url) /\ Truthy(item.slug)
        m == SelectSeq(d.missing, ok)
        c == SelectSeq(d.changed, ok)
    IN  [i \in DOMAIN m |-> PlanItem("missing", m[i])]
        \o [i \in DOMAIN c |-> PlanItem("changed", c[i])]

\* faulty variant: one entry more than the cap
CapPlan_OneMore(p, n) == IF n = NoneV THEN p ELSE Take(p, n + 1)

\* plan[:max_items] when max_items is not None
CapPlan(p, n) == IF n = NoneV THEN p ELSE Take(p, n)

FailureRecord(item, e) ==
    [kind |-> item.kind, slug |-> item.slug, filename |-> item.filename,
     url |-> item.url, error |-> e]

Running == {"start", "loop", "archive", "download", "write", "handler"}

Item == plan[idx]

localVars == <<results, already_done, plan, idx, attempt, exc, wctx>>
fsVars == <<destFiles, archiveFiles, ckptFiles>>
histVars == <<loaded, fetched, archivedNow, completed, raised, attempted, archOps>>

\* lines 133-146: load the checkpoint, build and cap the plan
Start ==
    /\ pc = "start"
    /\ LET f == ckptFiles[checkpoint_path] IN
       IF LoadOk(f)
       THEN /\ results' = LoadResults(f)
            /\ already_done' = AlreadyDone(LoadResults(f))
            /\ plan' = CapPlan(build_download_plan(delta), max_items)
            /\ loaded' = LoadResults(f)
            /\ pc' = "loop"
            /\ exc' = exc
       ELSE /\ pc' = "aborted"
            /\ exc' = "load"
            /\ UNCHANGED <<results, already_done, plan, loaded>>
    /\ idx' = 1
    /\ UNCHANGED <<attempt, wctx, fetched, archivedNow, completed, raised, attempted, archOps>>
    /\ UNCHANGED <<fsVars, clock, run, deltaVars, argVars, httpVars>>

\* line 151: the plan is exhausted; line 182
LoopDone ==
    /\ pc = "loop"
    /\ idx > Len(plan)
    /\ pc' = "done"
    /\ UNCHANGED <<localVars, fsVars, histVars, clock, run, deltaVars, argVars, httpVars>>

\* lines 152-153
LoopSkip ==
    /\ pc = "loop"
    /\ idx <= Len(plan)
    /\ Item.filename \in already_done
    /\ idx' = idx + 1
    /\ UNCHANGED <<pc, results, already_done, plan, attempt, exc, wctx>>
    /\ UNCHANGED <<fsVars, histVars, clock, run, deltaVars, argVars, httpVars>>

\* lines 155-158: enter the try block
LoopEnter ==
    /\ pc = "loop"
    /\ idx <= Len(plan)
    /\ Item.filename \notin already_done
    /\ attempted' = attempted \cup {idx}
    /\ attempt' = 0
    /\ pc' = IF Item.kind = "changed" /\ archive_changed /\ destFiles[Item.filename] # "absent"
             THEN "archive" ELSE "download"
    /\ UNCHANGED <<results, already_done, plan, idx, exc, wctx>>
    /\ UNCHANGED <<loaded, fetched, archivedNow, completed, raised, archOps>>
    /\ UNCHANGED <<fsVars, clock, run, deltaVars, argVars, httpVars>>

\* faulty variant: the archived path is recorded in memory and not persisted
ArchiveExisting_NotPersisted ==
    /\ pc = "archive"
    /\ \E now \in clock..MaxClock :
       LET fn == Item.filename
           path == ArchivedPath(fn, Item.slug, safe_ts(now))
       IN  /\ clock' = now
           /\ archiveFiles' = [p \in DOMAIN archiveFiles \cup {path} |->
                                  IF p = path THEN destFiles[fn] ELSE archiveFiles[p]]
           /\ destFiles' = [destFiles EXCEPT ![fn] = "absent"]
           /\ results' = [results EXCEPT !.archived = Append(@, path)]
           /\ archivedNow' = archivedNow \cup {fn}
           /\ archOps' = archOps \cup {[path |-> path, time |-> now,
                                         lost |-> path \in DOMAIN archiveFiles]}
    /\ pc' = "download"
    /\ UNCHANGED <<already_done, plan, idx, attempt, exc, wctx, ckptFiles>>
    /\ UNCHANGED <<loaded, fetched, completed, raised, attempted>>
    /\ UNCHANGED <<run, deltaVars, argVars, httpVars>>

\* lines 159-161 and 58-66: move the destination to the archive directory;
\* now is the time utcnow() returns, any time from the last one read onwards
ArchiveExisting ==
    /\ pc = "archive"
    /\ \E now \in clock..MaxClock :
       LET fn == Item.filename
           path == ArchivedPath(fn, Item.slug, safe_ts(now))
       IN  /\ clock' = now
           /\ archiveFiles' = [p \in DOMAIN archiveFiles \cup {path} |->
                                  IF p = path THEN destFiles[fn] ELSE archiveFiles[p]]
           /\ destFiles' = [destFiles EXCEPT ![fn] = "absent"]
           /\ results' = [results EXCEPT !.archived = Append(@, path)]
           /\ archivedNow' = archivedNow \cup {fn}
           /\ archOps' = archOps \cup {[path |-> path, time |-> now,
                                         lost |-> path \in DOMAIN archiveFiles]}
    /\ pc' = "write"
    /\ wctx' = "archived"
    /\ UNCHANGED <<already_done, plan, idx, attempt, exc, ckptFiles>>
    /\ UNCHANGED <<loaded, fetched, completed, raised, attempted>>
    /\ UNCHANGED <<run, deltaVars, argVars, httpVars>>

\* lines 159, 170: mkdir or shutil.move raises
ArchiveRaise ==
    /\ pc = "archive"
    /\ exc' = "archive"
    /\ raised' = raised \cup {idx}
    /\ pc' = "handler"
    /\ UNCHANGED <<results, already_done, plan, idx, attempt, wctx>>
    /\ UNCHANGED <<loaded, fetched, archivedNow, completed, attempted, archOps>>
    /\ UNCHANGED <<fsVars, clock, run, deltaVars, argVars, httpVars>>

\* lines 38-54: one attempt of _download_file fails; retried, or raised on the last
DownloadFail ==
    /\ pc = "download"
    /\ fetched' = fetched \cup {Item.filename}
    /\ IF attempt >= DlMaxRetries
       THEN /\ exc' = "download"
            /\ raised' = raised \cup {idx}
            /\ pc' = "handler"
            /\ attempt' = attempt
       ELSE /\ attempt' = attempt + 1
            /\ UNCHANGED <<exc, raised, pc>>
    /\ UNCHANGED <<results, already_done, plan, idx, wctx>>
    /\ UNCHANGED <<loaded, archivedNow, completed, attempted, archOps>>
    /\ UNCHANGED <<fsVars, clock, run, deltaVars, argVars, httpVars>>

\* lines 41-49 and 164-165: the attempt succeeds, .part is renamed to dest,
\* dest is appended to results["downloaded"]
DownloadOk ==
    /\ pc = "download"
    /\ fetched' = fetched \cup {Item.filename}
    /\ destFiles' = [destFiles EXCEPT ![Item.filename] = "new"]
    /\ completed' = completed \cup {Item.filename}
    /\ results' = [results EXCEPT !.downloaded = Append(@, DestPath(Item.filename))]
    /\ pc' = "write"
    /\ wctx' = "downloaded"
    /\ UNCHANGED <<already_done, plan, idx, attempt, exc, archiveFiles, ckptFiles>>
    /\ UNCHANGED <<loaded, archivedNow, raised, attempted, archOps>>
    /\ UNCHANGED <<clock, run, deltaVars, argVars, httpVars>>

\* os.replace(src, dst)
Replace(files, src, dst) ==
    IF src = dst THEN files
    ELSE [p \in DOMAIN files |->
            IF p = dst THEN files[src] ELSE IF p = src THEN Absent ELSE files[p]]

\* faulty variant: tmp is written and never renamed
write_json_no_rename(files, path, obj) ==
    [files EXCEPT ![TmpPath(path)] = FullFile(obj)]

\* _write_json_atomic as one step (lines 75-80): write_text to tmp, tmp.replace(path).
\* Its intermediate states touch tmp alone, which nothing reads; they are the
\* subject of SpecWrite
write_json_atomic(files, path, obj) ==
    Replace([files EXCEPT ![TmpPath(path)] = FullFile(obj)], TmpPath(path), path)

\* a write_text cut short by an error leaves a partial tmp
write_json_failed(files, path, obj) ==
    [files EXCEPT ![TmpPath(path)] = PartialFile(obj)]

\* lines 162, 166-168, 180: the checkpoint is written; back to the caller
WriteOk ==
    /\ pc = "write"
    /\ ckptFiles' = write_json_atomic(ckptFiles, checkpoint_path, results)
    /\ IF wctx = "archived"
       THEN /\ pc' = "download"
            /\ UNCHANGED <<idx, already_done>>
       ELSE /\ pc' = "loop"
            /\ idx' = idx + 1
            /\ already_done' = IF wctx = "downloaded"
                               THEN already_done \cup {Item.filename}
                               ELSE already_done
    /\ UNCHANGED <<results, plan, attempt, exc, wctx, destFiles, archiveFiles>>
    /\ UNCHANGED <<histVars, clock, run, deltaVars, argVars, httpVars>>

\* _write_json_atomic raises (OSError): caught at line 170 inside the try block,
\* propagated to the caller from the handler's own write (line 180)
WriteRaise ==
    /\ pc = "write"
    /\ ckptFiles' = write_json_failed(ckptFiles, checkpoint_path, results)
    /\ exc' = "write"
    /\ pc' = IF wctx \in {"archived", "downloaded"} THEN "handler" ELSE "aborted"
    /\ UNCHANGED <<results, already_done, plan, idx, attempt, wctx>>
    /\ UNCHANGED <<destFiles, archiveFiles, histVars, clock, run, deltaVars, argVars, httpVars>>

\* faulty variant: the handler lets the exception through
Handler_Reraise ==
    /\ pc = "handler"
    /\ pc' = "aborted"
    /\ UNCHANGED <<localVars, fsVars, histVars, clock, run, deltaVars, argVars, httpVars>>

\* lines 170-179: append the failure record
Handler ==
    /\ pc = "handler"
    /\ results' = [results EXCEPT !.failed = Append(@, FailureRecord(Item, exc))]
    /\ pc' = "write"
    /\ wctx' = "failed"
    /\ UNCHANGED <<already_done, plan, idx, attempt, exc>>
    /\ UNCHANGED <<fsVars, histVars, clock, run, deltaVars, argVars, httpVars>>

\* the process is killed: memory is lost, the file system stays
Crash ==
    /\ pc \in Running
    /\ pc' = "crashed"
    /\ results' = EmptyResults
    /\ already_done' = {}
    /\ attempt' = 0
    /\ wctx' = ""
    /\ exc' = "killed"
    /\ UNCHANGED <<plan, idx>>
    /\ UNCHANGED <<fsVars, histVars, clock, run, deltaVars, argVars, httpVars>>

\* the downloader is run again with the same arguments
Resume ==
    /\ pc \in {"done", "crashed", "aborted"}
    /\ run < MaxRuns
    /\ run' = run + 1
    /\ pc' = "start"
    /\ results' = EmptyResults
    /\ already_done' = {}
    /\ plan' = <<>>
    /\ idx' = 1
    /\ attempt' = 0
    /\ wctx' = ""
    /\ exc' = ""
    /\ loaded' = EmptyResults
    /\ fetched' = {}
    /\ archivedNow' = {}
    /\ completed' = {}
    /\ raised' = {}
    /\ attempted' = {}
    /\ UNCHANGED <<archOps, fsVars, clock, deltaVars, argVars, httpVars>>

\* catalogs of the downloader's runs: a remote PDF of size 2, a local one of size 1;
\* local files the remote catalog lacks are orphaned, which the plan ignores.
\* A remote record may lack its url, and the plan leaves its entry out
DLRemoteRec(fn) == [pdf_filename |-> fn, pdf_url |-> fn, pdf_content_length |-> SizeInt(2)]
DLRemoteRecNoUrl(fn) == [DLRemoteRec(fn) EXCEPT !.pdf_url = NoneV]
DLLocalRec(fn) == [size |-> SizeInt(1), path |-> DestPath(fn)]
DLRemotes ==
    UNION {{ri \in [S -> UNION {{DLRemoteRec(fn), DLRemoteRecNoUrl(fn)} : fn \in S}] :
               \A fn \in S : ri[fn].pdf_filename = fn} : S \in SUBSET (Names \cap Slugs)}
DLLocals(ri) == {[fn \in S |-> DLLocalRec(fn)] : S \in SUBSET remote_files(ri)}

\* checkpoints left by earlier runs (possibly run with another eat_dir)
PriorPaths == {[dir |-> d, name |-> 1] : d \in {"eat_dir", "old_dir"}}
\* the failure such a run recorded
PriorFailed(p) ==
    IF p.dir = "old_dir"
    THEN <<[kind |-> "missing", slug |-> NumSlugs, filename |-> NumNames,
            url |-> NumNames, error |-> "download"]>>
    ELSE <<>>
PriorCheckpoints ==
    {Absent} \cup {FullFile([EmptyResults EXCEPT !.downloaded = <<p>>,
                                                 !.failed = PriorFailed(p)]) :
                      p \in PriorPaths}

HttpIdle == [pc |-> "idle", method |-> "", max_retries |-> 0, attempt |-> 0,
             log |-> <<>>, status |-> 0, error |-> ""]

WriteIdle == [pc |-> "idle", obj |-> EmptyResults]

IndexIdle == [pc |-> "idle"]

\* the state at the call of download_missing_and_changed
InitRun(priors, caps, archs) ==
    /\ remote_index \in DLRemotes
    /\ local_index \in DLLocals(remote_index)
    /\ delta = compute_delta(remote_index, local_index)
    /\ dpc = "computed"
    /\ archive_changed \in archs
    /\ max_items \in caps
    /\ pc = "start"
    /\ wctx = ""
    /\ results = EmptyResults
    /\ already_done = {}
    /\ plan = <<>>
    /\ idx = 1
    /\ attempt = 0
    /\ exc = ""
    /\ destFiles \in [Names -> {"absent", "old"}]
    /\ archiveFiles = <<>>
    /\ \E f \in priors :
          ckptFiles = [p \in CkptPaths |-> IF p = checkpoint_path THEN f ELSE Absent]
    /\ clock = 0
    /\ run = 1
    /\ loaded = EmptyResults
    /\ fetched = {}
    /\ archivedNow = {}
    /\ completed = {}
    /\ raised = {}
    /\ attempted = {}
    /\ archOps = {}
    /\ http = HttpIdle
    /\ wr = WriteIdle
    /\ ix = IndexIdle

\* one call: the steps of the function
Steps ==
    \/ Start
    \/ LoopDone
    \/ LoopSkip
    \/ LoopEnter
    \/ ArchiveExisting
    \/ ArchiveRaise
    \/ DownloadFail
    \/ DownloadOk
    \/ WriteOk
    \/ Handler

(***************************************************************************)
(* Spec: one run of the downloader from any prior checkpoint, with every   *)
(* fault: archive and download errors, checkpoint write errors, a kill     *)
(***************************************************************************)
Init == InitRun(PriorCheckpoints, {NoneV, 0, 1, NumNames + 1}, BOOLEAN)

Next ==
    \/ Steps
    \/ WriteRaise
    \/ Crash

Spec == Init /\ [][Next]_vars

(***************************************************************************)
(* SpecResume: a first run from no checkpoint and the runs that resume it, *)
(* with archive and download errors and kills                              *)
(***************************************************************************)
InitResume ==
    /\ InitRun({Absent}, {NoneV}, {TRUE})
    /\ \A fn \in Names : destFiles[fn] = "old" <=> fn \in DOMAIN local_index

NextResume ==
    \/ Steps
    \/ Crash
    \/ Resume

SpecResume == InitResume /\ [][NextResume]_vars

(***************************************************************************)
(* Parts at rest, for the specifications of one component                  *)
(***************************************************************************)
DeltaIdle ==
    /\ remote_index = <<>>
    /\ local_index = <<>>
    /\ delta = NoDelta
    /\ dpc = "idle"

DownloaderIdle ==
    /\ archive_changed = TRUE
    /\ max_items = NoneV
    /\ pc = "idle"
    /\ wctx = ""
    /\ results = EmptyResults
    /\ already_done = {}
    /\ plan = <<>>
    /\ idx = 1
    /\ attempt = 0
    /\ exc = ""
    /\ destFiles = [fn \in Names |-> "absent"]
    /\ archiveFiles = <<>>
    /\ clock = 0
    /\ run = 1
    /\ loaded = EmptyResults
    /\ fetched = {}
    /\ archivedNow = {}
    /\ completed = {}
    /\ raised = {}
    /\ attempted = {}
    /\ archOps = {}

dlVars == <<archive_changed, max_items, pc, localVars, destFiles, archiveFiles,
            clock, run, histVars>>

(***************************************************************************)
(* SpecDelta: compute_delta applied to a pair of catalogs                  *)
(***************************************************************************)
\* lines 62-128
ComputeDelta ==
    /\ dpc = "input"
    /\ IF compute_delta_raises(remote_index, local_index)
       THEN /\ dpc' = "raised"
            /\ delta' = delta
       ELSE /\ dpc' = "computed"
            /\ delta' = compute_delta(remote_index, local_index)
    /\ UNCHANGED <<remote_index, local_index, dlVars, ckptFiles, httpVars>>

InitDelta ==
    /\ remote_index \in RemoteCatalogs
    /\ local_index \in LocalCatalogs
    /\ delta = NoDelta
    /\ dpc = "input"
    /\ DownloaderIdle
    /\ ckptFiles = [p \in CkptPaths |-> Absent]
    /\ http = HttpIdle
    /\ wr = WriteIdle
    /\ ix = IndexIdle

NextDelta == ComputeDelta

SpecDelta == InitDelta /\ [][NextDelta]_vars

(***************************************************************************)
(* SpecWrite: _write_json_atomic step by step, with kills and errors       *)
(***************************************************************************)
\* checkpoints the downloader writes: lists of downloaded destinations
RECURSIVE PathSeqs(_)
PathSeqs(S) == {<<>>} \cup UNION {{<<DestPath(fn)>> \o t : t \in PathSeqs(S \ {fn})} : fn \in S}
WriteObjs == {[EmptyResults EXCEPT !.downloaded = d] : d \in PathSeqs(Names)}

\* line 79: tmp is opened for writing, which truncates it; text is being written
TmpWriteOpen ==
    /\ wr.pc = "call"
    /\ ckptFiles' = [ckptFiles EXCEPT ![TmpPath(checkpoint_path)] = PartialFile(wr.obj)]
    /\ wr' = [wr EXCEPT !.pc = "writing"]
    /\ UNCHANGED <<deltaVars, dlVars, http, ix>>

\* line 79: the text is written in full and tmp closed
TmpWriteClose ==
    /\ wr.pc = "writing"
    /\ ckptFiles' = [ckptFiles EXCEPT ![TmpPath(checkpoint_path)] = FullFile(wr.obj)]
    /\ wr' = [wr EXCEPT !.pc = "written"]
    /\ UNCHANGED <<deltaVars, dlVars, http, ix>>

\* line 79 raises (disk full, ...): tmp stays cut short
TmpWriteError ==
    /\ wr.pc = "writing"
    /\ wr' = [wr EXCEPT !.pc = "raised"]
    /\ UNCHANGED <<deltaVars, dlVars, ckptFiles, http, ix>>

\* line 80: tmp.replace(path)
TmpReplace ==
    /\ wr.pc = "written"
    /\ ckptFiles' = Replace(ckptFiles, TmpPath(checkpoint_path), checkpoint_path)
    /\ wr' = [wr EXCEPT !.pc = "done"]
    /\ UNCHANGED <<deltaVars, dlVars, http, ix>>

\* the process is killed inside _write_json_atomic
WriteKill ==
    /\ wr.pc \in {"call", "writing", "written"}
    /\ wr' = [wr EXCEPT !.pc = "killed"]
    /\ UNCHANGED <<deltaVars, dlVars, ckptFiles, http, ix>>

\* the next call, by this process or by the run that resumes a killed one
WriteAgain ==
    /\ wr.pc \in {"done", "raised", "killed"}
    /\ \E o \in WriteObjs \ {wr.obj} : wr' = [pc |-> "call", obj |-> o]
    /\ UNCHANGED <<deltaVars, dlVars, ckptFiles, http, ix>>

InitWrite ==
    /\ DeltaIdle
    /\ DownloaderIdle
    /\ \E f \in {Absent} \cup {FullFile(o) : o \in WriteObjs} :
          ckptFiles = [p \in CkptPaths |-> IF p = checkpoint_path THEN f ELSE Absent]
    /\ \E o \in WriteObjs : wr = [pc |-> "call", obj |-> o]
    /\ http = HttpIdle
    /\ ix = IndexIdle

NextWrite ==
    \/ TmpWriteOpen
    \/ TmpWriteClose
    \/ TmpWriteError
    \/ TmpReplace
    \/ WriteKill
    \/ WriteAgain

SpecWrite == InitWrite /\ [][NextWrite]_vars

(***************************************************************************)
(* SpecHttp: one call of HttpClient.get_json or HttpClient.head            *)
(***************************************************************************)
\* what one attempt meets: a 2xx response (for get_json, with a JSON body), a 2xx
\* response whose body is not JSON, a status in (429, 500, 502, 503, 504),
\* another 4xx/5xx status, a network failure
GetOutcomes == {"ok", "bad_json", "retryable_status", "error_status", "network"}
HeadOutcomes == {"ok", "retryable_status", "error_status", "network"}

\* for attempt in range(self.max_retries + 1)
InRange(a, m) == a < m + 1

\* lines 72, 91: if attempt >= self.max_retries
LastAttempt(a, m) == a >= m

\* faulty variant: on the last attempt get_json returns the error as head does
GetJsonAttempt_ReturnsError ==
    /\ http.pc = "loop"
    /\ http.method = "get_json"
    /\ InRange(http.attempt, http.max_retries)
    /\ \E o \in GetOutcomes :
          http' = IF o = "ok"
                  THEN [http EXCEPT !.log = Append(@, o), !.pc = "returned", !.status = 200]
                  ELSE IF LastAttempt(http.attempt, http.max_retries)
                  THEN [http EXCEPT !.log = Append(@, o), !.pc = "returned",
                                    !.status = 0, !.error = o]
                  ELSE [http EXCEPT !.log = Append(@, o), !.error = o, !.attempt = @ + 1]
    /\ UNCHANGED <<deltaVars, dlVars, ckptFiles, wr, ix>>

\* lines 62-74: one pass of get_json's loop
GetJsonAttempt ==
    /\ http.pc = "loop"
    /\ http.method = "get_json"
    /\ InRange(http.attempt, http.max_retries)
    /\ \E o \in GetOutcomes :
          http' = IF o = "ok"
                  THEN [http EXCEPT !.log = Append(@, o), !.pc = "returned", !.status = 200]
                  ELSE IF LastAttempt(http.attempt, http.max_retries)
                  THEN [http EXCEPT !.log = Append(@, o), !.pc = "raised", !.error = o]
                  ELSE [http EXCEPT !.log = Append(@, o), !.error = o, !.attempt = @ + 1]
    /\ UNCHANGED <<deltaVars, dlVars, ckptFiles, wr, ix>>

\* line 75: the loop ran out (max_retries < 0): raise last_exc
GetJsonExhausted ==
    /\ http.pc = "loop"
    /\ http.method = "get_json"
    /\ ~InRange(http.attempt, http.max_retries)
    /\ http' = [http EXCEPT !.pc = "raised", !.error = "TypeError"]
    /\ UNCHANGED <<deltaVars, dlVars, ckptFiles, wr, ix>>

\* faulty variant: on the last attempt head re-raises as get_json does
HeadAttempt_Raises ==
    /\ http.pc = "loop"
    /\ http.method = "head"
    /\ InRange(http.attempt, http.max_retries)
    /\ \E o \in HeadOutcomes :
          http' = IF o = "ok"
                  THEN [http EXCEPT !.log = Append(@, o), !.pc = "returned", !.status = 200]
                  ELSE IF LastAttempt(http.attempt, http.max_retries)
                  THEN [http EXCEPT !.log = Append(@, o), !.pc = "raised", !.error = o]
                  ELSE [http EXCEPT !.log = Append(@, o), !.error = o, !.attempt = @ + 1]
    /\ UNCHANGED <<deltaVars, dlVars, ckptFiles, wr, ix>>

\* lines 81-94: one pass of head's loop; on the last attempt the error becomes
\* _dummy_head_response (status 0, header x-head-error)
HeadAttempt ==
    /\ http.pc = "loop"
    /\ http.method = "head"
    /\ InRange(http.attempt, http.max_retries)
    /\ \E o \in HeadOutcomes :
          http' = IF o = "ok"
                  THEN [http EXCEPT !.log = Append(@, o), !.pc = "returned", !.status = 200]
                  ELSE IF LastAttempt(http.attempt, http.max_retries)
                  THEN [http EXCEPT !.log = Append(@, o), !.pc = "returned",
                                    !.status = 0, !.error = o]
                  ELSE [http EXCEPT !.log = Append(@, o), !.error = o, !.attempt = @ + 1]
    /\ UNCHANGED <<deltaVars, dlVars, ckptFiles, wr, ix>>

\* line 96: the loop ran out (max_retries < 0): _dummy_head_response(str(None))
HeadExhausted ==
    /\ http.pc = "loop"
    /\ http.method = "head"
    /\ ~InRange(http.attempt, http.max_retries)
    /\ http' = [http EXCEPT !.pc = "returned", !.status = 0, !.error = "None"]
    /\ UNCHANGED <<deltaVars, dlVars, ckptFiles, wr, ix>>

InitHttp ==
    /\ DeltaIdle
    /\ DownloaderIdle
    /\ ckptFiles = [p \in CkptPaths |-> Absent]
    /\ wr = WriteIdle
    /\ ix = IndexIdle
    /\ \E m \in {"get_json", "head"}, r \in (-1)..HttpMaxRetries :
          http = [pc |-> "loop", method |-> m, max_retries |-> r, attempt |-> 0,
                  log |-> <<>>, status |-> 0, error |-> ""]

NextHttp ==
    \/ GetJsonAttempt
    \/ GetJsonExhausted
    \/ HeadAttempt
    \/ HeadExhausted

SpecHttp == InitHttp /\ [][NextHttp]_vars

(***************************************************************************)
(* eat_remote_index.py: build_remote_index_v2                              *)
(***************************************************************************)
\* page_size, scaled down from 200
PageSize == 2

\* _env_int("EAT_INDEX_MAX_WORKERS", default=16) and the clamp of line 262
PoolDefault == 16
PoolMin == 1
PoolMax == 64

\* _env_int: the default when the variable is unset (or not an int)
env_int(v, default) == IF v = NoneV THEN default ELSE v

\* max(1, min(max_workers, 64))
max_workers_of(v) ==
    LET w == env_int(v, PoolDefault)
        lo == IF w < PoolMax THEN w ELSE PoolMax
    IN  IF lo > PoolMin THEN lo ELSE PoolMin

\* what the remote holds for one search result (results are numbered from 1 in
\* the order the search endpoint lists them; the title of result s is s):
\*   "nolink"    the result has no link
\*   "nopdf"     its content document has no PDF url
\*   "pdf"       content with a PDF, the HEAD probe succeeds
\*   "head_err"  content with a PDF, the HEAD probe fails after its retries
\*   "fail"      the content GET fails after its retries (get_json raises)
ResultKinds == {"nolink", "nopdf", "pdf", "head_err", "fail"}

\* the remote's result list: up to a full page of any results, or a full page
\* and one result more, which a second page serves
MaxResults == PageSize + 1
RECURSIVE SeqsUpTo(_, _)
SeqsUpTo(S, n) ==
    IF n = 0 THEN {<<>>}
    ELSE LET shorter == SeqsUpTo(S, n - 1)
         IN  shorter \cup {Append(q, x) : q \in {t \in shorter : Len(t) = n - 1}, x \in S}
Remotes ==
    LET pages == SeqsUpTo(ResultKinds, PageSize)
    IN  pages \cup {Append(q, x) : q \in {t \in pages : Len(t) = PageSize},
                                   x \in {"pdf", "fail"}}

\* the search endpoint: count results from offset start on
SearchPage(remote, start) ==
    LET last == IF start + PageSize < Len(remote) THEN start + PageSize ELSE Len(remote)
    IN  [i \in 1..(IF last > start THEN last - start ELSE 0) |-> start + i]

\* title = (content.get("title") or r.get("title") or "") (line 290): the
\* content document's title, written 0, or the search result's when the
\* content has none; published_date (line 293) falls back the same way
TitleOf(ctitle, rtitle) == IF ctitle THEN 0 ELSE rtitle

\* _build_one's record for a result of slug s (lines 299-317)
BuildRecord(s, kind, title) ==
    [slug |-> s,
     title |-> title,
     pdf_url |-> IF kind \in {"pdf", "head_err"} THEN s ELSE NoneV,
     pdf_content_length |-> IF kind = "pdf" THEN SizeInt(1) ELSE SizeNone,
     head_error |-> kind = "head_err"]

\* faulty variant: a slug the catalog already holds keeps its record
PutItem_KeepFirst(out, s, kind, title) ==
    IF kind = "nolink" \/ s \in DOMAIN out THEN out
    ELSE [x \in DOMAIN out \cup {s} |->
             IF x = s THEN BuildRecord(s, kind, title) ELSE out[x]]

\* out[slug] = rec for an item that is not None
PutItem(out, s, kind, title) ==
    IF kind = "nolink" THEN out
    ELSE [x \in DOMAIN out \cup {s} |->
             IF x = s THEN BuildRecord(s, kind, title) ELSE out[x]]

\* line 351: max_items is not None and yielded >= max_items
CapReached(yielded, n) == n # NoneV /\ yielded >= n

\* faulty variant: the offset is not advanced
NextStart_Stuck(start, n) == start

\* line 359: start += len(results)
NextStart(start, n) == start + n

\* line 362: isinstance(total, int) and start >= total
TotalReached(start, total) == total # NoneV /\ start >= total

TaskRunning(t) == t \in {"getting", "heading"}
TaskFinished(t) == t \in {"done", "failed"}
RunningTasks == {i \in DOMAIN ix.tasks : TaskRunning(ix.tasks[i])}
QueuedTasks == {i \in DOMAIN ix.tasks : ix.tasks[i] = "queued"}

\* faulty variant: a task starts as soon as it is submitted
WorkerFree_Always(running, w) == TRUE

\* ThreadPoolExecutor(max_workers): a queued task starts when a worker is free
WorkerFree(running, w) == running < w

\* faulty variant: a failed content GET is not raised
AfterContent_Swallowed(kind) ==
    CASE kind = "nopdf" -> "done"
      [] kind = "fail" -> "done"
      [] OTHER -> "heading"

\* _build_one after the content GET (lines 288-311): get_json raised, no HEAD
\* to issue, or the HEAD is issued
AfterContent(kind) ==
    CASE kind = "fail" -> "failed"
      [] kind = "nopdf" -> "done"
      [] OTHER -> "heading"

\* lines 321-335, 339: a search page is fetched; an empty page ends the loop,
\* otherwise one task per result is submitted
FetchPage ==
    /\ ix.pc = "fetch"
    /\ LET page == SearchPage(ix.remote, ix.start)
           log == Append(ix.pages, [start |-> ix.start, n |-> Len(page)])
       IN  ix' = IF page = <<>>
                 THEN [ix EXCEPT !.pc = "returned", !.pages = log]
                 ELSE [ix EXCEPT !.pc = "collect", !.pages = log, !.page = page,
                                 !.tasks = [i \in DOMAIN page |-> "queued"],
                                 !.consumed = {}]
    /\ UNCHANGED <<deltaVars, dlVars, ckptFiles, http, wr>>

\* line 328: get_json raises after its retries
FetchPageRaise ==
    /\ ix.pc = "fetch"
    /\ ix' = [ix EXCEPT !.pc = "raised", !.error = "search",
                        !.pages = Append(@, [start |-> ix.start, n |-> NoneV])]
    /\ UNCHANGED <<deltaVars, dlVars, ckptFiles, http, wr>>

\* a worker takes the oldest queued task (lines 279-288): a result without a
\* link is done at once, for any other the content GET is issued
TaskStart ==
    /\ ix.pc \in {"collect", "drain"}
    /\ QueuedTasks # {}
    /\ WorkerFree(Cardinality(RunningTasks), ix.max_workers)
    /\ LET i == SetMin(QueuedTasks)
           kind == ix.remote[ix.page[i]]
       IN  ix' = [ix EXCEPT !.tasks[i] = IF kind = "nolink" THEN "done" ELSE "getting"]
    /\ UNCHANGED <<deltaVars, dlVars, ckptFiles, http, wr>>

\* lines 288-311: the content GET of a task is over
TaskContent ==
    /\ ix.pc \in {"collect", "drain"}
    /\ \E i \in DOMAIN ix.tasks :
          /\ ix.tasks[i] = "getting"
          /\ ix' = [ix EXCEPT !.tasks[i] = AfterContent(ix.remote[ix.page[i]])]
    /\ UNCHANGED <<deltaVars, dlVars, ckptFiles, http, wr>>

\* lines 311-317: the HEAD probe of a task is over (head never raises)
TaskHead ==
    /\ ix.pc \in {"collect", "drain"}
    /\ \E i \in DOMAIN ix.tasks :
          /\ ix.tasks[i] = "heading"
          /\ ix' = [ix EXCEPT !.tasks[i] = "done"]
    /\ UNCHANGED <<deltaVars, dlVars, ckptFiles, http, wr>>

\* lines 341-363: as_completed hands over a finished future.  fut.result()
\* re-raises the task's exception; otherwise the item is stored and counted, the
\* cap is tested, and after the page's last future the offset is advanced
Collect ==
    /\ ix.pc = "collect"
    /\ \E i \in DOMAIN ix.tasks \ ix.consumed :
          /\ TaskFinished(ix.tasks[i])
          /\ LET s == ix.page[i]
                 y == ix.yielded + 1
                 cons == ix.consumed \cup {i}
                 st == NextStart(ix.start, Len(ix.page))
                 got == [ix EXCEPT !.out = PutItem(@, ix.link[s], ix.remote[s],
                                                   TitleOf(ix.ctitle, s)),
                                   !.yielded = y,
                                   !.consumed = cons,
                                   !.collected = @ \cup {s}]
             IN  ix' = IF ix.tasks[i] = "failed"
                       THEN [ix EXCEPT !.pc = "drain", !.exit = "raise",
                                       !.error = "content", !.consumed = cons,
                                       !.collected = @ \cup {s}]
                       ELSE IF CapReached(y, ix.max_items)
                       THEN [got EXCEPT !.pc = "drain", !.exit = "return"]
                       ELSE IF cons # DOMAIN ix.tasks
                       THEN got
                       ELSE [got EXCEPT !.start = st,
                                        !.pc = IF TotalReached(st, ix.total)
                                               THEN "returned" ELSE "fetch"]
    /\ UNCHANGED <<deltaVars, dlVars, ckptFiles, http, wr>>

\* line 338: leaving the with block shuts the executor down with wait=True; the
\* return value or the exception is delivered when every submitted task is over
DrainDone ==
    /\ ix.pc = "drain"
    /\ \A i \in DOMAIN ix.tasks : TaskFinished(ix.tasks[i])
    /\ ix' = [ix EXCEPT !.pc = IF ix.exit = "raise" THEN "raised" ELSE "returned"]
    /\ UNCHANGED <<deltaVars, dlVars, ckptFiles, http, wr>>

\* the links of the results, result s carrying slug link[s], and whether the
\* content documents carry a title.  Results of one slug have one content
\* document and one PDF, hence one kind.  Each result has its own slug and a
\* titled content document; or, among results of one kind, the second result of
\* the first page carries the slug of the first, with or without a content
\* title; or the result of the second page does, without one
LinkCases(remote) ==
    LET own == [s \in DOMAIN remote |-> s]
        shared(q) == [own EXCEPT ![q] = 1]
        canShare(q) == /\ q \in DOMAIN remote
                       /\ remote[1] # "nolink"
                       /\ \A s \in DOMAIN remote : remote[s] = remote[1]
    IN  {[link |-> own, ctitle |-> TRUE]}
        \cup {[link |-> shared(2), ctitle |-> t] : t \in {b \in BOOLEAN : canShare(2)}}
        \cup {[link |-> shared(q), ctitle |-> FALSE] :
                 q \in {s \in {MaxResults} : canShare(s)}}

\* the values of EAT_INDEX_MAX_WORKERS: unset, below and above the clamp
EnvWorkers == {NoneV, 0, 100}
\* the totals a search payload reports: none, the true one, a short one
Totals(remote) == {NoneV, Len(remote), 1}
\* max_items: none, reached at the first item, inside a page, at the end of the
\* first page
IndexCaps == {NoneV, 0, 1, PageSize}

InitIndex ==
    /\ DeltaIdle
    /\ DownloaderIdle
    /\ ckptFiles = [p \in CkptPaths |-> Absent]
    /\ http = HttpIdle
    /\ wr = WriteIdle
    /\ \E remote \in Remotes, cap \in IndexCaps, env \in EnvWorkers :
       \E total \in Totals(remote), lc \in LinkCases(remote) :
          ix = [pc |-> "fetch", remote |-> remote, total |-> total,
                link |-> lc.link, ctitle |-> lc.ctitle,
                max_items |-> cap, env |-> env, max_workers |-> max_workers_of(env),
                start |-> 0, yielded |-> 0, out |-> <<>>,
                page |-> <<>>, tasks |-> <<>>, consumed |-> {}, collected |-> {},
                pages |-> <<>>, exit |-> "", error |-> ""]

NextIndex ==
    \/ FetchPage
    \/ FetchPageRaise
    \/ TaskStart
    \/ TaskContent
    \/ TaskHead
    \/ Collect
    \/ DrainDone

\* the main thread and the workers all keep running
SpecIndex == InitIndex /\ [][NextIndex]_vars /\ WF_vars(NextIndex)

(***************************************************************************)
(* Claims                                                                  *)
(***************************************************************************)
\* file names of a list of paths, of a list of delta entries
PathNames(paths) == {PathName(paths[i]) : i \in DOMAIN paths}
EntryNames(entries) == {entries[i].filename : i \in DOMAIN entries}

\* the checkpoint as it stands at the canonical path
Persisted == ckptFiles[checkpoint_path]
PersistedNames == IF Persisted.exists /\ Persisted.complete
                  THEN PathNames(Persisted.obj.downloaded) ELSE {}

\* number of entries of list s equal to x
Count(s, x) == Cardinality({i \in DOMAIN s : s[i] = x})

\* C1: an item whose file name is the name of a path in the downloaded list loaded
\* at the start of the run is neither archived nor requested in that run
C1_SkipDownloaded ==
    \A fn \in PathNames(loaded.downloaded) :
        fn \notin fetched /\ fn \notin archivedNow

\* a finished run that skipped an item listed under another directory and fetched another
C1_Witness ==
    /\ pc = "done"
    /\ \E i \in DOMAIN plan :
          /\ plan[i].filename \in PathNames(loaded.downloaded)
          /\ DestPath(plan[i].filename) \notin Range(loaded.downloaded)
    /\ fetched # {}

\* C2: when the archive or download step of item i raised, one failure record of
\* item i is in the persisted checkpoint once the handler is through, the run is
\* never ended by such a failure, and a run that ends has attempted every item
\* it did not skip
C2_FailureContained ==
    /\ \A i \in raised :
          i < idx =>
             /\ Persisted.exists /\ Persisted.complete
             /\ \E e \in {"archive", "download"} :
                   /\ Count(Persisted.obj.failed, FailureRecord(plan[i], e))
                         = Count(loaded.failed, FailureRecord(plan[i], e)) + 1
                   /\ \A r \in Range(Persisted.obj.failed) \ Range(loaded.failed) :
                         r.filename = plan[i].filename => r = FailureRecord(plan[i], e)
    /\ pc = "aborted" => exc \in {"write", "load"}
    /\ pc = "done" =>
          \A j \in DOMAIN plan :
             j \in attempted \/ plan[j].filename \in PathNames(loaded.downloaded)

\* a finished run whose first item failed and whose second was attempted
C2_Witness ==
    /\ pc = "done"
    /\ \E i \in raised : \E j \in attempted : j > i /\ plan[j].filename \in completed

\* C3: at every point of _write_json_atomic, kills included, the file at the
\* canonical path is complete, and a step leaves it as it was or makes it the
\* complete new checkpoint
C3_CrashAtomic ==
    /\ [](Persisted.exists => Persisted.complete)
    /\ [][\/ ckptFiles'[checkpoint_path] = ckptFiles[checkpoint_path]
          \/ ckptFiles'[checkpoint_path] = FullFile(wr.obj)]_vars

\* killed between the write of tmp and the rename: tmp is the new checkpoint,
\* the canonical path still holds the previous one
C3_Witness ==
    /\ wr.pc = "killed"
    /\ ckptFiles[TmpPath(checkpoint_path)] = FullFile(wr.obj)
    /\ Persisted.exists
    /\ Persisted # FullFile(wr.obj)

\* C4 as stated: a run that was killed or that failed left a checkpoint listing
\* every item whose download was renamed into place
C4_AllCompletedPersisted ==
    pc \in {"crashed", "aborted"} => completed \subseteq PersistedNames

\* C4 amended: at every point the persisted checkpoint lists every completed
\* item other than the one the run is processing (renamed into place, its
\* checkpoint write not yet through)
C4_CompletedButCurrentPersisted ==
    \A fn \in completed :
        \/ fn \in PersistedNames
        \/ /\ idx \in DOMAIN plan
           /\ plan[idx].filename = fn
           /\ pc \in {"write", "handler", "crashed", "aborted"}

\* a run killed after two downloads: the first is listed, the second is not
C4_Witness ==
    /\ pc = "crashed"
    /\ Cardinality(completed) = 2
    /\ Cardinality(completed \cap PersistedNames) = 1

\* C5 as stated: two archive operations at two different times produce different
\* archived paths, and no archive operation replaces an archived file
C5_DistinctArchivePaths ==
    /\ \A a, b \in archOps : a.time # b.time => a.path # b.path
    /\ \A a \in archOps : ~a.lost

\* the claim's sets of file names, read off the catalogs
RemoteFilenames ==
    {remote_index[s].pdf_filename : s \in DOMAIN remote_index} \ {NoneV, 0}
LocalFilenames == DOMAIN local_index
NoFilenameSlugs == {s \in DOMAIN remote_index : remote_index[s].pdf_filename \in {NoneV, 0}}

\* C6: missing holds exactly the file names remote minus local, orphaned exactly
\* local minus remote, each once; remote records without a file name are in neither
C6_MissingOrphanedExact ==
    dpc = "computed" =>
        /\ EntryNames(delta.missing) = RemoteFilenames \ LocalFilenames
        /\ Len(delta.missing) = Cardinality(RemoteFilenames \ LocalFilenames)
        /\ EntryNames(delta.orphaned) = LocalFilenames \ RemoteFilenames
        /\ Len(delta.orphaned) = Cardinality(LocalFilenames \ RemoteFilenames)
        /\ \A i \in DOMAIN delta.missing : delta.missing[i].slug \notin NoFilenameSlugs
        /\ \A s \in NoFilenameSlugs :
              remote_index[s].pdf_filename \notin
                  EntryNames(delta.missing) \cup EntryNames(delta.changed)

\* a delta with a missing and an orphaned file from a catalog holding a record
\* without a file name
C6_Witness ==
    /\ dpc = "computed"
    /\ delta.missing # <<>>
    /\ delta.orphaned # <<>>
    /\ NoFilenameSlugs # {}

\* the size a catalog gives: present or not, and its number when it has one
Present(x) == x.t # "none"
HasNumber(x) == x.t \in {"int", "str"}
Number(x) == x.v
\* the remote record the file name is keyed to (the catalog's last one)
RemoteOf(fn) ==
    remote_index[SetMax({s \in DOMAIN remote_index : remote_index[s].pdf_filename = fn})]

\* C7: a file name of both catalogs is in changed iff both sizes are present and
\* numerically unequal, then once and with the two numbers; compute_delta raises
\* no error
C7_ChangedIffSizesDiffer ==
    /\ dpc # "raised"
    /\ dpc = "computed" =>
          /\ EntryNames(delta.changed) \subseteq RemoteFilenames \cap LocalFilenames
          /\ \A fn \in RemoteFilenames \cap LocalFilenames :
                LET rs == RemoteOf(fn).pdf_content_length
                    ls == local_index[fn].size
                    hits == {i \in DOMAIN delta.changed : delta.changed[i].filename = fn}
                    unequal == /\ Present(rs) /\ Present(ls)
                               /\ HasNumber(rs) /\ HasNumber(ls)
                               /\ Number(rs) # Number(ls)
                IN  /\ unequal => /\ Cardinality(hits) = 1
                                  /\ \A i \in hits :
                                        /\ delta.changed[i].remote_size = Number(rs)
                                        /\ delta.changed[i].local_size = Number(ls)
                    /\ ~unequal => hits = {}

\* one file changed, another in both catalogs with equal sizes and left out
C7_Witness ==
    /\ dpc = "computed"
    /\ Len(delta.changed) = 1
    /\ \E fn \in RemoteFilenames \cap LocalFilenames :
          /\ fn \notin EntryNames(delta.changed)
          /\ HasNumber(RemoteOf(fn).pdf_content_length)
          /\ HasNumber(local_index[fn].size)

\* C8: the three counts are the lengths of the three lists
C8_CountsAreLengths ==
    dpc = "computed" =>
        /\ delta.counts.missing = Len(delta.missing)
        /\ delta.counts.changed = Len(delta.changed)
        /\ delta.counts.orphaned = Len(delta.orphaned)

\* a delta whose lists differ in length from the catalogs' sizes
C8_Witness ==
    /\ dpc = "computed"
    /\ Len(delta.missing) = 1
    /\ Len(delta.changed) = 1
    /\ delta.counts.remote = 2

Last(s) == s[Len(s)]

\* C9: head never raises; it makes at most max_retries + 1 attempts, and returns
\* the successful response of its last attempt or, all attempts having failed,
\* the synthetic one (status 0, an error header)
C9_HeadNeverRaises ==
    http.method = "head" =>
        /\ http.pc # "raised"
        /\ Len(http.log) <= http.max_retries + 1
        /\ (Len(http.log) > 0 /\ Len(http.log) = http.max_retries + 1) => http.pc = "returned"
        /\ http.pc = "returned" =>
              \/ http.status = 200 /\ Len(http.log) > 0 /\ Last(http.log) = "ok"
              \/ http.status = 0 /\ http.error # "" /\ "ok" \notin Range(http.log)

\* head returned the synthetic response after a retried call
C9_Witness ==
    /\ http.method = "head"
    /\ http.pc = "returned"
    /\ http.status = 0
    /\ Len(http.log) = http.max_retries + 1
    /\ Len(http.log) >= 2

\* C10: get_json makes at most max_retries + 1 attempts; it returns only on a
\* successful attempt, which is its last; once all its attempts have failed it
\* is no longer attempting and has raised
C10_GetJsonRaises ==
    http.method = "get_json" =>
        /\ Len(http.log) <= http.max_retries + 1
        /\ \A i \in DOMAIN http.log : http.log[i] = "ok" => i = Len(http.log)
        /\ http.pc = "returned" <=> (Len(http.log) > 0 /\ Last(http.log) = "ok")
        /\ http.pc = "loop" => (Len(http.log) < http.max_retries + 1 \/ http.log = <<>>)
        /\ http.pc = "raised" => "ok" \notin Range(http.log)
        /\ http.pc = "returned" => http.status = 200

\* get_json raised after a retried call
C10_Witness ==
    /\ http.method = "get_json"
    /\ http.pc = "raised"
    /\ Len(http.log) = http.max_retries + 1
    /\ Len(http.log) >= 2

\* a step in which a task issues its content GET or its HEAD request
RequestIssued ==
    \E i \in DOMAIN ix.tasks \cap DOMAIN ix'.tasks :
        /\ ix'.page = ix.page
        /\ ix'.tasks[i] # ix.tasks[i]
        /\ TaskRunning(ix'.tasks[i])

\* C11 as stated, for a cap N >= 1: once N items have been processed no content
\* GET or HEAD request is issued, and the catalog returned has at most N records
C11_NoRequestAfterCap ==
    /\ [][(ix.max_items # NoneV /\ ix.max_items >= 1 /\ RequestIssued)
             => ~CapReached(ix.yielded, ix.max_items)]_vars
    /\ [](ix.pc = "returned" /\ ix.max_items # NoneV /\ ix.max_items >= 1
             => Cardinality(DOMAIN ix.out) <= ix.max_items)

\* slugs of the results the fetched search pages held
FetchedSlugs ==
    UNION {(ix.pages[k].start + 1)..(ix.pages[k].start + ix.pages[k].n) :
              k \in {j \in DOMAIN ix.pages : ix.pages[j].n # NoneV}}
SearchFailed == \E k \in DOMAIN ix.pages : ix.pages[k].n = NoneV

\* C12 as stated: whenever a content fetch has failed, no catalog is returned
C12_AnyFailureAborts ==
    ix.pc = "returned" => \A i \in DOMAIN ix.tasks : ix.tasks[i] # "failed"

\* C12: a failed search-page fetch, and a failed content fetch whose future is
\* collected (every one, without max_items), make the run raise and return no
\* catalog; the run raises for no other reason, and a failed HEAD probe leaves
\* its record in the catalog with head_error set
C12_CollectedFailureAborts ==
    /\ ix.pc = "returned" =>
          /\ ~SearchFailed
          /\ \A s \in ix.collected : ix.remote[s] # "fail"
          /\ ix.max_items = NoneV => \A s \in FetchedSlugs : ix.remote[s] # "fail"
          /\ \A s \in ix.collected :
                ix.remote[s] = "head_err" =>
                    /\ ix.link[s] \in DOMAIN ix.out
                    /\ ix.out[ix.link[s]].head_error
                    /\ ix.out[ix.link[s]].pdf_content_length = SizeNone
          /\ \A s \in DOMAIN ix.out : ix.out[s].head_error <=> ix.remote[s] = "head_err"
    /\ ix.pc = "raised" =>
          \/ ix.error = "search" /\ SearchFailed
          \/ ix.error = "content" /\ \E s \in ix.collected : ix.remote[s] = "fail"
    /\ ix.pc \in {"collect", "fetch"} => \A s \in ix.collected : ix.remote[s] # "fail"

\* the run raised on a content failure after a record with a failed HEAD probe
\* had been collected
C12_Witness ==
    /\ ix.pc = "raised"
    /\ ix.error = "content"
    /\ \E s \in DOMAIN ix.out : ix.out[s].head_error

\* the plan entry a delta entry of a kind stands for
PlanEntryOf(kind, e) == [kind |-> kind, slug |-> e.slug, filename |-> e.filename, url |-> e.pdf_url]
Complete(e) == Truthy(e.filename) /\ Truthy(e.pdf_url) /\ Truthy(e.slug)
\* the outcome of plan position j is in the checkpoint file
OutcomePersisted(j) ==
    /\ Persisted.exists /\ Persisted.complete
    /\ \/ plan[j].filename \in PathNames(Persisted.obj.downloaded)
       \/ \E k \in DOMAIN Persisted.obj.failed :
             Persisted.obj.failed[k].filename = plan[j].filename
PlanBuilt == pc \in {"loop", "archive", "download", "write", "handler", "done"}

\* C13: the plan holds the missing entries before the changed ones, each group by
\* ascending file name, and exactly the entries with file name, url and slug; the
\* items are processed one at a time in plan order, an item being entered only
\* when the outcome of every earlier processed item is in the checkpoint
C13_PlanOrder ==
    /\ [](PlanBuilt =>
            /\ \A i, j \in DOMAIN plan :
                  i < j => /\ plan[i].kind = "changed" => plan[j].kind = "changed"
                           /\ plan[i].kind = plan[j].kind =>
                                 plan[i].filename < plan[j].filename
            /\ \A i \in DOMAIN plan : Complete([filename |-> plan[i].filename,
                                                pdf_url |-> plan[i].url,
                                                slug |-> plan[i].slug])
            /\ \A i \in DOMAIN plan :
                  \/ /\ plan[i].kind = "missing"
                     /\ \E k \in DOMAIN delta.missing :
                           plan[i] = PlanEntryOf("missing", delta.missing[k])
                  \/ /\ plan[i].kind = "changed"
                     /\ \E k \in DOMAIN delta.changed :
                           plan[i] = PlanEntryOf("changed", delta.changed[k])
            /\ max_items = NoneV =>
                  /\ \A k \in DOMAIN delta.missing :
                        Complete(delta.missing[k]) =>
                            PlanEntryOf("missing", delta.missing[k]) \in Range(plan)
                  /\ \A k \in DOMAIN delta.changed :
                        Complete(delta.changed[k]) =>
                            PlanEntryOf("changed", delta.changed[k]) \in Range(plan)
            /\ attempted \subseteq 1..idx
            /\ \A j \in attempted : j < idx => OutcomePersisted(j))
    /\ [][/\ idx' # idx => idx' = idx + 1
          /\ attempted' # attempted => attempted' = attempted \cup {idx}
          /\ fetched' # fetched => fetched' = fetched \cup {plan[idx].filename}
          /\ archivedNow' # archivedNow =>
                archivedNow' = archivedNow \cup {plan[idx].filename}]_vars

\* a finished run whose plan put a missing file before a changed file of a
\* smaller name, and processed both
C13_Witness ==
    /\ pc = "done"
    /\ Len(plan) = 2
    /\ plan[1].kind = "missing"
    /\ plan[2].kind = "changed"
    /\ plan[1].filename > plan[2].filename
    /\ attempted = {1, 2}

\* C14 as stated: an attempt is followed by another one only if it failed by a
\* network failure or with a status in (429, 500, 502, 503, 504)
C14_RetryOnlyRetryable ==
    http.method \in {"get_json", "head"} =>
        \A i \in DOMAIN http.log :
            i < Len(http.log) => http.log[i] \in {"network", "retryable_status"}

\* the archived paths of file name fn that the checkpoint file lists and the
\* archive directory holds
PersistedArchives(fn) ==
    {p \in Range(Persisted.obj.archived) :
        p.dir = "archive" /\ p.name = fn /\ p \in DOMAIN archiveFiles}

\* C15: a file is archived only for the current item, of kind changed, with
\* archiving enabled and its destination existing, and before any download
\* request for it; a download request for such an item is issued only once the
\* destination has been moved away and the archived path is in the checkpoint
\* file
C15_ArchiveBeforeDownload ==
    /\ [](pc = "download" =>
            /\ (Item.kind = "changed" /\ archive_changed) =>
                   destFiles[Item.filename] = "absent"
            /\ Item.filename \in archivedNow =>
                   /\ Persisted.exists /\ Persisted.complete
                   /\ PersistedArchives(Item.filename) # {})
    /\ [](\A fn \in archivedNow :
             /\ archive_changed
             /\ \E i \in attempted : plan[i].filename = fn /\ plan[i].kind = "changed")
    /\ [][archiveFiles' # archiveFiles =>
             /\ pc = "archive"
             /\ Item.kind = "changed"
             /\ archive_changed
             /\ destFiles[Item.filename] # "absent"
             /\ destFiles'[Item.filename] = "absent"
             /\ Item.filename \notin fetched
             /\ fetched' = fetched
             /\ \E p \in DOMAIN archiveFiles' :
                   p.name = Item.filename /\ archiveFiles'[p] = destFiles[Item.filename]]_vars
    /\ [][(pc = "loop" /\ pc' = "download") =>
             ~(Item.kind = "changed" /\ archive_changed
               /\ destFiles[Item.filename] # "absent")]_vars

\* a finished run that archived and then downloaded one changed file, and
\* downloaded another changed file, whose destination was gone, without archiving
C15_Witness ==
    /\ pc = "done"
    /\ archive_changed
    /\ \E i, j \in attempted :
          /\ plan[i].kind = "changed" /\ plan[j].kind = "changed"
          /\ plan[i].filename \in archivedNow \cap completed
          /\ plan[j].filename \in completed \ archivedNow

\* the uncapped plan of the delta, and the file names of its first n entries
FullPlan == build_download_plan(delta)
FirstNames(n) == {FullPlan[i].filename : i \in {k \in DOMAIN FullPlan : k <= n}}

\* C16: with a cap N >= 0 the plan is the first N entries of the uncapped plan
\* (all of it when N is larger), at most N entries are skipped or processed, and
\* no file of a later entry is archived or fetched
C16_CapFirstN ==
    (max_items # NoneV /\ PlanBuilt) =>
        /\ Len(plan) = (IF max_items < Len(FullPlan) THEN max_items ELSE Len(FullPlan))
        /\ \A i \in DOMAIN plan : plan[i] = FullPlan[i]
        /\ Cardinality(attempted) <= max_items
        /\ idx <= max_items + 1
        /\ fetched \subseteq FirstNames(max_items)
        /\ archivedNow \subseteq FirstNames(max_items)
        /\ completed \subseteq FirstNames(max_items)

\* a finished run with cap 1 on a plan of two entries whose first entry was
\* skipped as already downloaded: nothing was fetched
C16_Witness ==
    /\ pc = "done"
    /\ max_items = 1
    /\ Len(FullPlan) = 2
    /\ FullPlan[1].filename \in PathNames(loaded.downloaded)
    /\ attempted = {}
    /\ fetched = {}

\* the offset after the last page fetched
LastPage == ix.pages[Len(ix.pages)]
OffsetAfterLast == LastPage.start + LastPage.n
IndexTerminated == ix.pc \in {"returned", "raised"}

\* C17: the search pages are fetched at offsets 0, n1, n1 + n2, ...; another page
\* is fetched only after a page with results that left the offset below the
\* reported total, and a run that ends otherwise than by max_items or an error
\* ends after an empty page or with the offset at the reported total; against a
\* remote whose reported total is the number of its results the run terminates
C17_Pagination ==
    /\ [](ix.pc # "idle" =>
            /\ \A k \in DOMAIN ix.pages :
                  ix.pages[k].start =
                      (IF k = 1 THEN 0 ELSE ix.pages[k - 1].start + ix.pages[k - 1].n)
            /\ \A k \in DOMAIN ix.pages :
                  k < Len(ix.pages) =>
                      /\ ix.pages[k].n > 0
                      /\ ~TotalReached(ix.pages[k].start + ix.pages[k].n, ix.total)
            /\ (ix.pc = "fetch" /\ ix.pages # <<>>) =>
                  /\ LastPage.n > 0
                  /\ ix.start = OffsetAfterLast
                  /\ ~TotalReached(OffsetAfterLast, ix.total)
            /\ (ix.pc = "returned" /\ ix.exit = "") =>
                  \/ LastPage.n = 0
                  \/ TotalReached(OffsetAfterLast, ix.total))
    /\ (ix.pc # "idle" /\ ix.total = Len(ix.remote)) => <>IndexTerminated

\* a run that fetched a full page, the page after it and an empty third page
C17_Witness ==
    /\ ix.pc = "returned"
    /\ Len(ix.pages) = 3
    /\ ix.pages[2].start = PageSize
    /\ ix.pages[2].n = 1
    /\ ix.pages[3].n = 0

\* the configured pool width (16 when unset) clamped to [1, 64]
PoolWidth ==
    LET v == IF ix.env = NoneV THEN PoolDefault ELSE ix.env
    IN  IF v < PoolMin THEN PoolMin ELSE IF v > PoolMax THEN PoolMax ELSE v

\* C18: at most W tasks run at any moment, W being the configured width clamped
\* to [1, 64], and a search page is requested only when no task of an earlier
\* page is queued or running
C18_BoundedConcurrency ==
    /\ [](ix.pc # "idle" =>
            /\ ix.max_workers = PoolWidth
            /\ PoolWidth \in PoolMin..PoolMax
            /\ Cardinality(RunningTasks) <= PoolWidth
            /\ ix.pc = "fetch" => \A i \in DOMAIN ix.tasks : TaskFinished(ix.tasks[i]))
    /\ [][ix'.pages # ix.pages =>
             \A i \in DOMAIN ix.tasks : TaskFinished(ix.tasks[i])]_vars

\* a pool of width 1 with one task running and another waiting for the worker
C18_Witness ==
    /\ ix.pc = "collect"
    /\ ix.max_workers = 1
    /\ Cardinality(RunningTasks) = 1
    /\ QueuedTasks # {}

IsPrefix(a, b) == Len(a) <= Len(b) /\ \A i \in DOMAIN a : a[i] = b[i]
\* each list of checkpoint content a is a prefix of the same list of b
Extends(a, b) ==
    /\ IsPrefix(a.downloaded, b.downloaded)
    /\ IsPrefix(a.archived, b.archived)
    /\ IsPrefix(a.failed, b.failed)

\* C19: during a run the lists in memory and the lists of the checkpoint file
\* extend the lists loaded at start; every step of the run extends the lists in
\* memory, and every new content of the checkpoint file is complete and extends
\* the content it replaces
C19_AppendOnly ==
    /\ [](PlanBuilt => Extends(loaded, results))
    /\ []((Persisted.exists /\ pc # "idle") =>
             /\ Persisted.complete
             /\ Extends(loaded, Persisted.obj))
    /\ [][pc' # "crashed" => Extends(results, results')]_vars
    /\ [][Persisted' # Persisted =>
             /\ Persisted'.exists /\ Persisted'.complete
             /\ Extends(Persisted.obj, Persisted'.obj)
             /\ Persisted'.obj = results]_vars

\* a finished run that loaded a checkpoint with a download and a failure and
\* added a download to it
C19_Witness ==
    /\ pc = "done"
    /\ loaded.downloaded # <<>>
    /\ loaded.failed # <<>>
    /\ Len(Persisted.obj.downloaded) > Len(loaded.downloaded)

\* C20 as stated: a file once archived stays at its archived path with its
\* content, in this run and in every later run
C20_ArchivedContentKept ==
    [][\A p \in DOMAIN archiveFiles :
          /\ p \in DOMAIN archiveFiles'
          /\ archiveFiles'[p] = archiveFiles[p]]_vars

\* entries this run added to the persisted checkpoint for file name fn: its
\* destination in downloaded, failure records in failed
NewDownloads(fn) ==
    IF Persisted.exists /\ Persisted.complete
    THEN Count(Persisted.obj.downloaded, DestPath(fn)) - Count(loaded.downloaded, DestPath(fn))
    ELSE 0
NewFailures(fn) ==
    LET failedOf(failed) == Cardinality({k \in DOMAIN failed : failed[k].filename = fn})
    IN  IF Persisted.exists /\ Persisted.complete
        THEN failedOf(Persisted.obj.failed) - failedOf(loaded.failed)
        ELSE 0
\* plan positions the loop is through: entered, and left for the next item
ItemsEnded == {j \in attempted : j < idx \/ pc = "done"}

\* C21: every plan item that was not skipped and that the loop is through has
\* exactly one outcome in the persisted checkpoint, its destination in
\* downloaded or one failure record in failed, never both and never neither,
\* whatever raised while it was processed
C21_ExactlyOneOutcome ==
    \A j \in ItemsEnded :
        NewDownloads(plan[j].filename) + NewFailures(plan[j].filename) = 1

\* the run that collects every task in the order of submission: how it ends and
\* the number n of results it has collected by then.  start is the offset of
\* the page, i the place in the page of the future to collect next
RECURSIVE SequentialRun(_, _)
SequentialRun(start, i) ==
    LET page == SearchPage(ix.remote, start)
    IN  IF page = <<>> THEN [pc |-> "returned", n |-> start]
        ELSE IF i > Len(page)
        THEN IF TotalReached(start + Len(page), ix.total)
             THEN [pc |-> "returned", n |-> start + Len(page)]
             ELSE SequentialRun(start + Len(page), 1)
        ELSE IF ix.remote[page[i]] = "fail" THEN [pc |-> "raised", n |-> start + i - 1]
        ELSE IF CapReached(start + i, ix.max_items)
        THEN [pc |-> "returned", n |-> start + i]
        ELSE SequentialRun(start, i + 1)

\* the catalog of the first n results: each slug with the record of the last
\* of them that carries it
CatalogOf(n) ==
    LET linked == {p \in 1..n : ix.remote[p] # "nolink"}
    IN  [s \in {ix.link[p] : p \in linked} |->
            LET last == SetMax({p \in linked : ix.link[p] = s})
            IN  BuildRecord(s, ix.remote[last], TitleOf(ix.ctitle, last))]

\* whatever the interleaving, the run ends as the sequential run does, and a
\* catalog returned is the sequential run's
SameAsSequential ==
    /\ ix.pc = "returned" =>
          /\ SequentialRun(0, 1).pc = "returned"
          /\ ix.out = CatalogOf(SequentialRun(0, 1).n)
    /\ (ix.pc = "raised" /\ ix.error = "content") => SequentialRun(0, 1).pc = "raised"

\* C22 as stated: for fixed remote responses the catalog returned is the same
\* for every interleaving and completion order of the tasks, with max_items
\* set or not
C22_SchedulingIndependent == ix.pc # "idle" => SameAsSequential

\* max_items is not set, or the item that reaches it (the first item for
\* max_items = 0) is the last of a page, or there are fewer results
CapAtPageEnd ==
    \/ ix.max_items = NoneV
    \/ LET j == IF ix.max_items > 1 THEN ix.max_items ELSE 1
       IN  j % PageSize = 0 \/ j >= Len(ix.remote)

\* results of one page that carry one slug give one record
OneRecordPerSlug ==
    \A p, q \in DOMAIN ix.remote :
        (/\ p < q
         /\ ix.link[p] = ix.link[q]
         /\ (p - 1) \div PageSize = (q - 1) \div PageSize)
        => TitleOf(ix.ctitle, p) = TitleOf(ix.ctitle, q)

\* C22 amended: when max_items is not reached inside a page and the results of
\* one page that carry one slug give one record, the run ends in the same way
\* and returns the same catalog for every interleaving and completion order of
\* the tasks: for each slug the record of the last result carrying it, in the
\* order of the search results
C22_IndependentOutsidePage ==
    (ix.pc # "idle" /\ CapAtPageEnd /\ OneRecordPerSlug) => SameAsSequential

\* a run with max_items set that returned at the end of its first page, results
\* left on the remote, its tasks collected in any order
C22_Witness ==
    /\ ix.pc = "returned"
    /\ ix.exit = "return"
    /\ ix.max_items = PageSize
    /\ Len(ix.remote) > PageSize
    /\ Cardinality(DOMAIN ix.out) = PageSize
    /\ \E s \in DOMAIN ix.out : ix.out[s].head_error

====
